---- MODULE Spec2Model ----
(***************************************************************************)
(* Model of capture_wifi.py, the WiFi client of the ESP32 camera server:   *)
(* the HTTP command client (capture_image, get_status,                     *)
(* apply_camera_settings), the interactive shell (interactive_mode), main  *)
(* with its host argument and settings flags, and the mDNS resolution      *)
(* (resolve_mdns_fast, CameraServiceListener).                             *)
(*                                                                         *)
(* Text is modelled as sequences of one-character strings, so that         *)
(* str.strip, str.split, str.lower and int() are computed the way Python   *)
(* computes them.                                                          *)
(***************************************************************************)
EXTENDS Integers, Sequences, FiniteSets, TLC

(***************************************************************************)
(* Bounds of the model.                                                    *)
(***************************************************************************)
\* most tokens on an input line of the shell
MaxTokens == 3
\* most whitespace characters around an input line
MaxPad == 1
\* most bytes in the body of a /capture response
MaxBody == 2
\* most members in the body of a /status response
MaxFields == 2
\* most keyword arguments present in a direct call of apply_camera_settings
MaxParams == 3
\* most settings flags on a command line
MaxFlags == 3

(***************************************************************************)
(* Python text primitives.                                                 *)
(***************************************************************************)
UpperChars ==
  <<"A", "B", "C", "D", "E", "F", "G", "H", "I", "J", "K", "L", "M",
    "N", "O", "P", "Q", "R", "S", "T", "U", "V", "W", "X", "Y", "Z">>

LowerChars ==
  <<"a", "b", "c", "d", "e", "f", "g", "h", "i", "j", "k", "l", "m",
    "n", "o", "p", "q", "r", "s", "t", "u", "v", "w", "x", "y", "z">>

DigitChars == <<"0", "1", "2", "3", "4", "5", "6", "7", "8", "9">>

IsSpace(c) == c \in {" ", "\t"}

IsDigit(c) == \E i \in 1..Len(DigitChars) : DigitChars[i] = c

DigitVal(c) == (CHOOSE i \in 1..Len(DigitChars) : DigitChars[i] = c) - 1

LowerChar(c) ==
  IF \E i \in 1..Len(UpperChars) : UpperChars[i] = c
  THEN LowerChars[CHOOSE i \in 1..Len(UpperChars) : UpperChars[i] = c]
  ELSE c

\* str.lower()
Lower(s) == [i \in 1..Len(s) |-> LowerChar(s[i])]

RECURSIVE LStrip(_)
LStrip(s) == IF s # <<>> /\ IsSpace(Head(s)) THEN LStrip(Tail(s)) ELSE s

RECURSIVE RStrip(_)
RStrip(s) ==
  IF s # <<>> /\ IsSpace(s[Len(s)]) THEN RStrip(SubSeq(s, 1, Len(s) - 1)) ELSE s

\* str.strip()
Strip(s) == RStrip(LStrip(s))

RECURSIVE SplitAcc(_, _, _, _)
SplitAcc(s, i, cur, acc) ==
  IF i > Len(s)
  THEN IF cur = <<>> THEN acc ELSE Append(acc, cur)
  ELSE IF IsSpace(s[i])
       THEN SplitAcc(s, i + 1, <<>>, IF cur = <<>> THEN acc ELSE Append(acc, cur))
       ELSE SplitAcc(s, i + 1, Append(cur, s[i]), acc)

\* str.split(): the maximal runs of non-whitespace characters
Split(s) == SplitAcc(s, 1, <<>>, <<>>)

RECURSIVE DigitsValue(_, _, _)
DigitsValue(s, i, acc) ==
  IF i > Len(s) THEN acc ELSE DigitsValue(s, i + 1, acc * 10 + DigitVal(s[i]))

\* int(s) for a token s: an optional sign and one or more decimal digits;
\* ok = FALSE stands for ValueError
ParseInt(s) ==
  LET signed == s # <<>> /\ Head(s) \in {"+", "-"}
      digits == IF signed THEN Tail(s) ELSE s
      wellformed == digits # <<>> /\ \A i \in 1..Len(digits) : IsDigit(digits[i])
      magnitude == DigitsValue(digits, 1, 0)
  IN  IF wellformed
      THEN [ok |-> TRUE, val |-> IF Head(s) = "-" THEN 0 - magnitude ELSE magnitude]
      ELSE [ok |-> FALSE, val |-> 0]

Spaces(n) == [i \in 1..n |-> " "]

RECURSIVE JoinSpace(_)
JoinSpace(toks) ==
  IF toks = <<>> THEN <<>>
  ELSE IF Len(toks) = 1 THEN Head(toks)
       ELSE Head(toks) \o <<" ">> \o JoinSpace(Tail(toks))

(***************************************************************************)
(* The words of the command language and of the input lines.               *)
(***************************************************************************)
W_capture == <<"c", "a", "p", "t", "u", "r", "e">>
W_status == <<"s", "t", "a", "t", "u", "s">>
W_s == <<"s">>
W_help == <<"h", "e", "l", "p">>
W_h == <<"h">>
W_qmark == <<"?">>
W_quit == <<"q", "u", "i", "t">>
W_q == <<"q">>
W_exit == <<"e", "x", "i", "t">>
W_auto == <<"a", "u", "t", "o">>
W_resolutions == <<"r", "e", "s", "o", "l", "u", "t", "i", "o", "n", "s">>
W_manual == <<"m", "a", "n", "u", "a", "l">>
W_gain == <<"g", "a", "i", "n">>
W_comp == <<"c", "o", "m", "p">>
W_quality == <<"q", "u", "a", "l", "i", "t", "y">>
W_brightness == <<"b", "r", "i", "g", "h", "t", "n", "e", "s", "s">>
W_contrast == <<"c", "o", "n", "t", "r", "a", "s", "t">>
W_saturation == <<"s", "a", "t", "u", "r", "a", "t", "i", "o", "n">>
W_sharpness == <<"s", "h", "a", "r", "p", "n", "e", "s", "s">>
W_res == <<"r", "e", "s">>
W_qxga == <<"q", "x", "g", "a">>
W_uxga == <<"u", "x", "g", "a">>
W_sxga == <<"s", "x", "g", "a">>
W_xga == <<"x", "g", "a">>
W_svga == <<"s", "v", "g", "a">>
W_vga == <<"v", "g", "a">>
W_hvga == <<"h", "v", "g", "a">>
W_cif == <<"c", "i", "f">>
W_qvga == <<"q", "v", "g", "a">>
U_QUIT == <<"Q", "U", "I", "T">>
U_Capture == <<"C", "a", "p", "t", "u", "r", "e">>
U_Manual == <<"M", "a", "n", "u", "a", "l">>
U_RES == <<"R", "E", "S">>
U_QXGA == <<"Q", "X", "G", "A">>
U_Vga == <<"V", "g", "a">>
W_foo == <<"f", "o", "o">>
W_x == <<"x">>
N_m3 == <<"-", "3">>
N_m2 == <<"-", "2">>
N_m1 == <<"-", "1">>
N_0 == <<"0">>
N_2 == <<"2">>
N_3 == <<"3">>
N_30 == <<"3", "0">>
N_31 == <<"3", "1">>
N_63 == <<"6", "3">>
N_64 == <<"6", "4">>
N_1200 == <<"1", "2", "0", "0">>
N_1201 == <<"1", "2", "0", "1">>
N_p1 == <<"+", "1">>
N_1d5 == <<"1", ".", "5">>
N_12a == <<"1", "2", "a">>

(***************************************************************************)
(* The resolution tables.                                                   *)
(***************************************************************************)
\* RESOLUTIONS, in the dict's insertion order
RESOLUTIONS ==
  << [name |-> W_qxga, code |-> 19],
     [name |-> W_uxga, code |-> 15],
     [name |-> W_sxga, code |-> 14],
     [name |-> W_xga,  code |-> 12],
     [name |-> W_svga, code |-> 11],
     [name |-> W_vga,  code |-> 10],
     [name |-> W_hvga, code |-> 9],
     [name |-> W_cif,  code |-> 8],
     [name |-> W_qvga, code |-> 6] >>

\* RESOLUTION_NAMES: the labels, keyed by 2..10
RESOLUTION_NAMES ==
  (10 :> "QXGA (2048x1536)") @@ (9 :> "UXGA (1600x1200)") @@
  (8 :> "SXGA (1280x1024)") @@ (7 :> "XGA (1024x768)") @@
  (6 :> "SVGA (800x600)") @@ (5 :> "VGA (640x480)") @@
  (4 :> "HVGA (480x320)") @@ (3 :> "CIF (400x296)") @@
  (2 :> "QVGA (320x240)")

\* res_name in RESOLUTIONS
InResolutions(name) == \E i \in 1..Len(RESOLUTIONS) : RESOLUTIONS[i].name = name

\* a variant of ResolutionCode: the codes RESOLUTION_NAMES is keyed by
ResolutionCodeStale(name) ==
  11 - (CHOOSE i \in 1..Len(RESOLUTIONS) : RESOLUTIONS[i].name = name)

\* RESOLUTIONS[res_name]
ResolutionCode(name) ==
  RESOLUTIONS[CHOOSE i \in 1..Len(RESOLUTIONS) : RESOLUTIONS[i].name = name].code

\* RESOLUTION_NAMES[framesize] raises KeyError for a missing key
HasResolutionName(framesize) == framesize \in DOMAIN RESOLUTION_NAMES

(***************************************************************************)
(* Values shared by the operations.                                        *)
(***************************************************************************)
\* an optional integer: a keyword argument or a flag left at None, or set
None == [some |-> FALSE, val |-> 0]

Some(v) == [some |-> TRUE, val |-> v]

\* an optional file name (the positional output argument)
NoFile == [some |-> FALSE, name |-> ""]

File(n) == [some |-> TRUE, name |-> n]

\* a line written to the console or to the log
Msg(m) == [msg |-> m, var |-> "", name |-> <<>>, num |-> 0]

MsgVar(m, var, num) == [msg |-> m, var |-> var, name |-> <<>>, num |-> num]

MsgName(m, name, num) == [msg |-> m, var |-> "", name |-> name, num |-> num]

\* the GET requests of the client
ControlReq(var, val) == [path |-> "/control", var |-> var, val |-> val]

CaptureReq == [path |-> "/capture", var |-> "", val |-> 0]

StatusReq == [path |-> "/status", var |-> "", val |-> 0]

\* what requests.get can produce: a response with a status code, or an
\* exception (Timeout, ConnectionError)
HttpStatuses == {200, 500}

TransportErrors == {"Timeout", "ConnectionError"}

ControlResponses ==
  [kind : {"http"}, status : HttpStatuses] \cup
  [kind : {"ConnectionError"}, status : {0}]

SeqsUpTo(S, n) == UNION {[1..k -> S] : k \in 0..n}

Bodies == SeqsUpTo({0, 255}, MaxBody)

CaptureResponses ==
  [kind : {"http"}, status : HttpStatuses, content : Bodies] \cup
  [kind : TransportErrors, status : {0}, content : {<<>>}]

StatusMembers == [key : {"aec", "quality"}, value : {0, 1}]

StatusPayloads == [wellformed : BOOLEAN, members : SeqsUpTo(StatusMembers, MaxFields)]

StatusResponses ==
  [kind : {"http"}, status : HttpStatuses, payload : StatusPayloads] \cup
  [kind : TransportErrors, status : {0},
   payload : {[wellformed |-> FALSE, members |-> <<>>]}]

\* an optional status dictionary: the return value of get_status
NoDict == [some |-> FALSE, dict |-> [k \in {} |-> 0]]

SomeDict(d) == [some |-> TRUE, dict |-> d]

\* the return value of a function that returns a bool, and of one not called
NoRet == [kind |-> "none", bool |-> FALSE, status |-> NoDict]

BoolRet(b) == [kind |-> "bool", bool |-> b, status |-> NoDict]

StatusRet(d) == [kind |-> "status", bool |-> FALSE, status |-> d]

(***************************************************************************)
(* capture_image                                                           *)
(***************************************************************************)
AutoFileName == "capture_%Y%m%d_%H%M%S.jpg"

\* a variant of CaptureImage: the body is saved whatever the status code
CaptureImageIgnoresStatus(resp, output_file) ==
  IF resp.kind = "http"
  THEN LET fname == IF output_file.some THEN output_file.name ELSE AutoFileName
       IN  [reqs |-> <<CaptureReq>>, answers |-> <<resp>>,
            written |-> <<[name |-> fname, content |-> resp.content]>>,
            out |-> <<Msg("Requesting image"), Msg("Image saved"),
                      MsgVar("Size", "bytes", Len(resp.content))>>,
            ret |-> BoolRet(TRUE)]
  ELSE [reqs |-> <<CaptureReq>>, answers |-> <<resp>>,
        written |-> <<>>,
        out |-> <<Msg("Requesting image"), Msg("Error: Could not connect")>>,
        ret |-> BoolRet(FALSE)]

CaptureImage(resp, output_file) ==
  IF resp.kind = "http"
  THEN IF resp.status = 200
       THEN LET fname == IF output_file.some THEN output_file.name ELSE AutoFileName
            IN  [reqs |-> <<CaptureReq>>, answers |-> <<resp>>,
                 written |-> <<[name |-> fname, content |-> resp.content]>>,
                 out |-> <<Msg("Requesting image"), Msg("Image saved"),
                           MsgVar("Size", "bytes", Len(resp.content))>>,
                 ret |-> BoolRet(TRUE)]
       ELSE [reqs |-> <<CaptureReq>>, answers |-> <<resp>>,
             written |-> <<>>,
             out |-> <<Msg("Requesting image"),
                       MsgVar("Error: Server returned status code", "", resp.status)>>,
             ret |-> BoolRet(FALSE)]
  ELSE [reqs |-> <<CaptureReq>>, answers |-> <<resp>>,
        written |-> <<>>,
        out |-> <<Msg("Requesting image"),
                  IF resp.kind = "Timeout"
                  THEN Msg("Error: Request timed out (camera may be processing)")
                  ELSE Msg("Error: Could not connect")>>,
        ret |-> BoolRet(FALSE)]

(***************************************************************************)
(* get_status and print_status                                             *)
(***************************************************************************)
\* response.json() of an object: the last member with a key gives its value
Json(members) ==
  [k \in {members[i].key : i \in 1..Len(members)} |->
     members[CHOOSE i \in 1..Len(members) :
               /\ members[i].key = k
               /\ \A j \in (i + 1)..Len(members) : members[j].key # k].value]

\* a variant of GetStatus: a failure yields a snapshot of default values
GetStatusWithDefaults(resp) ==
  IF resp.kind = "http" /\ resp.status = 200 /\ resp.payload.wellformed
  THEN [reqs |-> <<StatusReq>>, answers |-> <<resp>>, out |-> <<>>,
        ret |-> StatusRet(SomeDict(Json(resp.payload.members)))]
  ELSE [reqs |-> <<StatusReq>>, answers |-> <<resp>>,
        out |-> <<Msg("Error getting status")>>,
        ret |-> StatusRet(SomeDict([k \in {"aec", "quality"} |-> 0]))]

GetStatus(resp) ==
  IF resp.kind = "http"
  THEN IF resp.status = 200
       THEN IF resp.payload.wellformed
            THEN [reqs |-> <<StatusReq>>, answers |-> <<resp>>, out |-> <<>>,
                  ret |-> StatusRet(SomeDict(Json(resp.payload.members)))]
            ELSE [reqs |-> <<StatusReq>>, answers |-> <<resp>>, out |-> <<Msg("Error getting status")>>,
                  ret |-> StatusRet(NoDict)]
       ELSE [reqs |-> <<StatusReq>>, answers |-> <<resp>>,
             out |-> <<MsgVar("Error: Server returned status code", "", resp.status)>>,
             ret |-> StatusRet(NoDict)]
  ELSE [reqs |-> <<StatusReq>>, answers |-> <<resp>>, out |-> <<Msg("Error getting status")>>,
        ret |-> StatusRet(NoDict)]

\* `if status:` is false for None and for an empty dictionary
PrintStatus(resp) ==
  LET r == GetStatus(resp)
      truthy == r.ret.status.some /\ DOMAIN r.ret.status.dict # {}
  IN  [reqs |-> r.reqs, answers |-> r.answers,
       out |-> <<Msg("Getting status")>> \o r.out \o
               <<IF truthy THEN Msg("=== Camera Status ===") ELSE Msg("Failed to get status")>>,
       ret |-> r.ret]

(***************************************************************************)
(* apply_camera_settings                                                   *)
(***************************************************************************)
\* the keyword arguments, in the order the function tests them
ParamOrder ==
  <<"aec", "aec_value", "ae_level", "gain_ctrl", "agc_gain", "quality",
    "framesize", "brightness", "contrast", "saturation", "sharpness">>

ParamSet == {ParamOrder[i] : i \in 1..Len(ParamOrder)}

NoKwargs == [p \in ParamSet |-> None]

RECURSIVE SettingsFrom(_, _)
SettingsFrom(kw, i) ==
  IF i > Len(ParamOrder) THEN <<>>
  ELSE (IF kw[ParamOrder[i]].some
        THEN <<[var |-> ParamOrder[i], val |-> kw[ParamOrder[i]].val]>>
        ELSE <<>>) \o SettingsFrom(kw, i + 1)

\* the list `settings`
Settings(kw) == SettingsFrom(kw, 1)

RECURSIVE ApplyLoopShortCircuit(_, _, _, _)
ApplyLoopShortCircuit(settings, resps, i, acc) ==
  IF i > Len(settings) \/ ~acc.success THEN acc
  ELSE LET ok == resps[i].kind = "http" /\ resps[i].status = 200
       IN  ApplyLoopShortCircuit(settings, resps, i + 1,
             [reqs |-> Append(acc.reqs, ControlReq(settings[i].var, settings[i].val)),
              answers |-> Append(acc.answers, resps[i]),
              out |-> acc.out,
              success |-> acc.success /\ ok])

\* the loop `for var, val in settings`, from its i-th element on
RECURSIVE ApplyLoop(_, _, _, _)
ApplyLoop(settings, resps, i, acc) ==
  IF i > Len(settings) THEN acc
  ELSE LET ok == resps[i].kind = "http" /\ resps[i].status = 200
           said == IF ok THEN "Set"
                   ELSE IF resps[i].kind = "http" THEN "Failed to set"
                        ELSE "Error setting"
       IN  ApplyLoop(settings, resps, i + 1,
             [reqs |-> Append(acc.reqs, ControlReq(settings[i].var, settings[i].val)),
              answers |-> Append(acc.answers, resps[i]),
              out |-> Append(acc.out, MsgVar(said, settings[i].var, settings[i].val)),
              success |-> acc.success /\ ok])

\* resps[i] is what requests.get produces for the i-th request of the call
ApplyCameraSettings(kw, resps) ==
  LET settings == Settings(kw)
  IN  IF settings = <<>>
      THEN [reqs |-> <<>>, answers |-> <<>>, out |-> <<Msg("No settings to apply")>>,
            ret |-> BoolRet(FALSE)]
      ELSE LET r == ApplyLoop(settings, resps, 1,
                      [reqs |-> <<>>, answers |-> <<>>,
                       out |-> <<MsgVar("Applying camera setting(s)", "", Len(settings))>>,
                       success |-> TRUE])
           IN  [reqs |-> r.reqs, answers |-> r.answers,
                out |-> IF r.success
                        THEN Append(r.out, Msg("All camera settings applied successfully"))
                        ELSE r.out,
                ret |-> BoolRet(r.success)]

\* the response sequences a call with these keyword arguments can meet
ResponsesFor(kw) == [1..Len(Settings(kw)) -> ControlResponses]

(***************************************************************************)
(* The state of a run.                                                     *)
(*   pc                where the process is                                *)
(*   args              the parsed command line (while main uses it)        *)
(*   input             what the last input() call of the shell produced    *)
(*   reqs              the GET requests issued by the last step            *)
(*   answers           what requests.get produced for each of reqs         *)
(*   main_sent         every GET request main has issued so far, in order  *)
(*   out               what the last step printed                          *)
(*   ret               what the last HTTP client function returned         *)
(*   written           the files the last step wrote                       *)
(*   settings_changed  the local variable of main                          *)
(*   exitCode          the exit code of the process, once it has exited    *)
(*   exc               the exception that ended the process, if any        *)
(*   kwargs            the keyword arguments of a direct call of           *)
(*                     apply_camera_settings                               *)
(***************************************************************************)
VARIABLES pc, args, input, reqs, answers, main_sent, out, ret, written, settings_changed,
          exitCode, exc, kwargs,
          host, esp32_host, ZEROCONF_AVAILABLE, advertised, listener, callback, zc,
          resolved_ip, resolver_runs, main_failed

\* host: args.host; esp32_host: the local of main every request is sent to;
\* advertised: the services on the network; listener: the
\* fields of the CameraServiceListener; callback: the browser thread inside
\* add_service; zc: the Zeroconf instance, its browser and the time waited;
\* resolved_ip: what resolve_mdns_fast returns.  resolver_runs and main_failed
\* are history: how often main resolved its host, and whether a call main made
\* has reported failure.
net == <<host, esp32_host, ZEROCONF_AVAILABLE, advertised, listener, callback, zc,
         resolved_ip, resolver_runs>>

vars == <<pc, args, input, reqs, answers, main_sent, out, ret, written, settings_changed,
          exitCode, exc, kwargs, net, main_failed>>

\* an address, or None
NoAddr == [some |-> FALSE, text |-> <<>>]

SomeAddr(t) == [some |-> TRUE, text |-> t]

\* what zc.get_service_info returns: None (info = FALSE), or the server name
\* and the packed addresses of the service
NoService == [info |-> FALSE, server |-> <<>>, addresses |-> <<>>]

ServiceInfo(server, addresses) == [info |-> TRUE, server |-> server, addresses |-> addresses]

NoListener == [hostname |-> <<>>, ip_address |-> NoAddr, found |-> FALSE]

IdleCallback == [pc |-> "idle", service |-> NoService]

NoZeroconf == [zeroconf |-> "none", browser |-> "none", elapsed |-> 0, reported |-> {}]

H_1_2_3_4 == <<"1", ".", "2", ".", "3", ".", "4">>

NoInput == [kind |-> "none", text |-> <<>>]

NoName == [some |-> FALSE, name |-> <<>>]

NoArgs ==
  [auto_exposure |-> FALSE, manual_exposure |-> None, exposure_comp |-> None,
   auto_gain |-> FALSE, manual_gain |-> None, quality |-> None,
   resolution |-> NoName, output |-> NoFile]

\* the command lines of the model: every flag absent or present, the integer
\* flags with a value inside and a value outside the documented range
AllArgs ==
  [auto_exposure : BOOLEAN,
   manual_exposure : {None, Some(300), Some(1201)},
   exposure_comp : {None, Some(0 - 1), Some(3)},
   auto_gain : BOOLEAN,
   manual_gain : {None, Some(10), Some(31)},
   quality : {None, Some(10), Some(64)},
   resolution : {NoName} \cup
                {[some |-> TRUE, name |-> RESOLUTIONS[i].name] : i \in 1..Len(RESOLUTIONS)},
   output : {NoFile, File("photo.jpg")}]

FlagCount(a) ==
  (IF a.auto_exposure THEN 1 ELSE 0) + (IF a.manual_exposure.some THEN 1 ELSE 0) +
  (IF a.exposure_comp.some THEN 1 ELSE 0) + (IF a.auto_gain THEN 1 ELSE 0) +
  (IF a.manual_gain.some THEN 1 ELSE 0) + (IF a.quality.some THEN 1 ELSE 0) +
  (IF a.resolution.some THEN 1 ELSE 0)

ArgSets == {a \in AllArgs : FlagCount(a) <= MaxFlags}

Init ==
  /\ pc = "main_exposure"
  /\ args \in ArgSets
  /\ input = NoInput
  /\ reqs = <<>>
  /\ answers = <<>>
  /\ main_sent = <<>>
  /\ out = <<>>
  /\ ret = NoRet
  /\ written = <<>>
  /\ settings_changed = FALSE
  /\ exitCode = None
  /\ exc = ""
  /\ kwargs = NoKwargs
  /\ host = H_1_2_3_4
  /\ esp32_host = H_1_2_3_4
  /\ ZEROCONF_AVAILABLE = TRUE
  /\ advertised = {}
  /\ listener = NoListener
  /\ callback = IdleCallback
  /\ zc = NoZeroconf
  /\ resolved_ip = NoAddr
  /\ resolver_runs = 1
  /\ main_failed = FALSE

(***************************************************************************)
(* main: the settings flags, then the capture or the shell.                *)
(***************************************************************************)
\* a block of main that does nothing because its flag is absent
MainSkip(next) ==
  /\ pc' = next
  /\ reqs' = <<>>
  /\ answers' = <<>>
  /\ out' = <<>>
  /\ ret' = NoRet
  /\ UNCHANGED <<args, input, main_sent, written, settings_changed, exitCode, exc, kwargs, net, main_failed>>

\* settings_changed = apply_camera_settings(...) or settings_changed
MainApply(kw, next) ==
  \E resps \in ResponsesFor(kw) :
    LET r == ApplyCameraSettings(kw, resps)
    IN  /\ reqs' = r.reqs
        /\ answers' = r.answers
        /\ main_sent' = main_sent \o r.reqs
        /\ out' = r.out
        /\ ret' = r.ret
        /\ settings_changed' = (r.ret.bool \/ settings_changed)
        /\ pc' = next
        /\ main_failed' = (main_failed \/ ~r.ret.bool)
        /\ UNCHANGED <<args, input, written, exitCode, exc, kwargs, net>>

\* print an error and return 1
MainReject(message) ==
  /\ reqs' = <<>>
  /\ answers' = <<>>
  /\ out' = <<Msg(message)>>
  /\ ret' = NoRet
  /\ pc' = "exited"
  /\ exitCode' = Some(1)
  /\ UNCHANGED <<args, input, main_sent, written, settings_changed, exc, kwargs, net, main_failed>>

KwExposureFlags(a) ==
  [NoKwargs EXCEPT !["aec"] = Some(IF a.auto_exposure THEN 1 ELSE 0),
                   !["aec_value"] = a.manual_exposure]

MainExposure ==
  /\ pc = "main_exposure"
  /\ IF args.auto_exposure \/ args.manual_exposure.some
     THEN MainApply(KwExposureFlags(args), "main_comp")
     ELSE MainSkip("main_comp")

ValidExposureCompFlag(v) == 0 - 2 <= v /\ v <= 2

MainExposureComp ==
  /\ pc = "main_comp"
  /\ IF args.exposure_comp.some
     THEN IF ValidExposureCompFlag(args.exposure_comp.val)
          THEN MainApply([NoKwargs EXCEPT !["ae_level"] = args.exposure_comp], "main_gain")
          ELSE MainReject("Error: Exposure compensation must be between -2 and 2")
     ELSE MainSkip("main_gain")

KwGainFlags(a) ==
  [NoKwargs EXCEPT !["gain_ctrl"] = Some(IF a.auto_gain THEN 1 ELSE 0),
                   !["agc_gain"] = a.manual_gain]

MainGain ==
  /\ pc = "main_gain"
  /\ IF args.auto_gain \/ args.manual_gain.some
     THEN MainApply(KwGainFlags(args), "main_quality")
     ELSE MainSkip("main_quality")

ValidQualityFlag(v) == 0 <= v /\ v <= 63

MainQuality ==
  /\ pc = "main_quality"
  /\ IF args.quality.some
     THEN IF ValidQualityFlag(args.quality.val)
          THEN MainApply([NoKwargs EXCEPT !["quality"] = args.quality], "main_resolution")
          ELSE MainReject("Error: Quality must be between 0 and 63")
     ELSE MainSkip("main_resolution")

\* the print of RESOLUTION_NAMES[framesize] raises KeyError when the code is
\* no key of that table; nothing catches it and the process ends
MainResolution ==
  /\ pc = "main_resolution"
  /\ IF args.resolution.some
     THEN LET framesize == ResolutionCode(Lower(args.resolution.name))
              kw == [NoKwargs EXCEPT !["framesize"] = Some(framesize)]
          IN  \E resps \in ResponsesFor(kw) :
                LET r == ApplyCameraSettings(kw, resps)
                IN  /\ reqs' = r.reqs
                    /\ answers' = r.answers
                    /\ main_sent' = main_sent \o r.reqs
                    /\ ret' = r.ret
                    /\ settings_changed' = (r.ret.bool \/ settings_changed)
                    /\ IF HasResolutionName(framesize)
                       THEN /\ out' = Append(r.out, MsgVar("Resolution set to",
                                                RESOLUTION_NAMES[framesize], framesize))
                            /\ pc' = "main_output"
                            /\ UNCHANGED <<exitCode, exc>>
                       ELSE /\ out' = r.out
                            /\ pc' = "exited"
                            /\ exitCode' = Some(1)
                            /\ exc' = "KeyError"
                    /\ main_failed' = (main_failed \/ ~r.ret.bool)
                    /\ UNCHANGED <<args, input, written, kwargs, net>>
     ELSE MainSkip("main_output")

\* `if args.output:` is false for None and for the empty string
OutputGiven(a) == a.output.some /\ a.output.name # ""

MainCapture ==
  /\ pc = "main_output"
  /\ OutputGiven(args)
  /\ \E resp \in CaptureResponses :
       LET r == CaptureImage(resp, args.output)
       IN  /\ reqs' = r.reqs
           /\ answers' = r.answers
           /\ main_sent' = main_sent \o r.reqs
           /\ out' = r.out
           /\ ret' = r.ret
           /\ written' = r.written
           /\ exitCode' = Some(IF r.ret.bool THEN 0 ELSE 1)
           /\ main_failed' = (main_failed \/ ~r.ret.bool)
  /\ pc' = "exited"
  /\ UNCHANGED <<args, input, settings_changed, exc, kwargs, net>>

\* `else: interactive_mode(esp32_host)`: main hands over to the shell, which
\* reads nothing of main's arguments or local variables
CallInteractive ==
  /\ pc = "main_output"
  /\ ~OutputGiven(args)
  /\ pc' = "interactive"
  /\ args' = NoArgs
  /\ main_sent' = <<>>
  /\ settings_changed' = FALSE
  /\ reqs' = <<>>
  /\ answers' = <<>>
  /\ out' = <<>>
  /\ ret' = NoRet
  /\ main_failed' = FALSE
  /\ UNCHANGED <<input, written, exitCode, exc, kwargs, net>>

\* interactive_mode up to its loop: the banner and the initial status
EnterShell ==
  /\ pc = "interactive"
  /\ \E resp \in StatusResponses :
       LET r == PrintStatus(resp)
       IN  /\ reqs' = r.reqs
           /\ answers' = r.answers
           /\ out' = <<Msg("ESP32 Camera Client - Connected")>> \o r.out
           /\ ret' = r.ret
  /\ pc' = "banner_done"
  /\ UNCHANGED <<args, input, main_sent, written, settings_changed, exitCode, exc, kwargs, net, main_failed>>

(***************************************************************************)
(* The input lines of the shell.                                           *)
(***************************************************************************)
NoArgWords ==
  {W_capture, W_status, W_s, W_help, W_h, W_qmark, W_quit, W_q, W_exit,
   W_auto, W_resolutions}

ArgWords ==
  {W_manual, W_gain, W_comp, W_quality, W_brightness, W_contrast,
   W_saturation, W_sharpness, W_res}

ResolutionWords == {RESOLUTIONS[i].name : i \in 1..Len(RESOLUTIONS)}

FirstTokens ==
  NoArgWords \cup ArgWords \cup {U_QUIT, U_Capture, U_Manual, U_RES, W_foo, N_2, W_qxga}

ArgTokens ==
  {N_m3, N_m2, N_m1, N_0, N_2, N_3, N_30, N_31, N_63, N_64, N_1200, N_1201,
   N_p1, N_1d5, N_12a, W_foo, U_QXGA, U_Vga} \cup ResolutionWords

TrailTokens == {W_x, N_2}

TwoTokenLines ==
  {<<c, a>> : c \in ArgWords \cup {U_Manual, U_RES}, a \in ArgTokens} \cup
  {<<c, W_x>> : c \in NoArgWords \cup {U_QUIT, W_foo}}

TokenSeqs ==
  {<<>>} \cup {<<a>> : a \in FirstTokens} \cup TwoTokenLines \cup
  UNION {{two \o t : two \in TwoTokenLines, t \in [1..k -> TrailTokens]} :
           k \in 1..(MaxTokens - 2)}

\* the lines input() can return: the tokens separated by one space, with up
\* to MaxPad spaces before and after
Lines == {Spaces(p) \o JoinSpace(ts) \o Spaces(p) : p \in 0..MaxPad, ts \in TokenSeqs}

(***************************************************************************)
(* interactive_mode: the loop.                                             *)
(***************************************************************************)
\* a variant of Dispatch: the first token alone selects the branch
DispatchFirstToken(raw) ==
  LET command == Strip(raw)
      parts == Split(command)
      first == IF parts = <<>> THEN <<>> ELSE Lower(parts[1])
      takes(w) == Len(parts) >= 2 /\ parts[1] = w
  IN  IF command = <<>> THEN "empty"
      ELSE IF first \in {W_q, W_quit, W_exit} THEN "quit"
      ELSE IF first \in {W_h, W_help, W_qmark} THEN "help"
      ELSE IF first \in {W_s, W_status} THEN "status"
      ELSE IF first = W_auto THEN "auto"
      ELSE IF first = W_capture THEN "capture"
      ELSE IF takes(W_manual) THEN "manual"
      ELSE IF takes(W_gain) THEN "gain"
      ELSE IF takes(W_comp) THEN "comp"
      ELSE IF takes(W_quality) THEN "quality"
      ELSE IF takes(W_brightness) THEN "brightness"
      ELSE IF takes(W_contrast) THEN "contrast"
      ELSE IF takes(W_saturation) THEN "saturation"
      ELSE IF takes(W_sharpness) THEN "sharpness"
      ELSE IF takes(W_res) THEN "res"
      ELSE IF first = W_resolutions THEN "resolutions"
      ELSE "unknown"

\* the branch of the if/elif chain that a line takes
Dispatch(raw) ==
  LET command == Strip(raw)
      command_lower == Lower(command)
      parts == Split(command)
      takes(w) == Len(parts) >= 2 /\ parts[1] = w
  IN  IF command = <<>> THEN "empty"
      ELSE IF command_lower \in {W_q, W_quit, W_exit} THEN "quit"
      ELSE IF command_lower \in {W_h, W_help, W_qmark} THEN "help"
      ELSE IF command_lower \in {W_s, W_status} THEN "status"
      ELSE IF command_lower = W_auto THEN "auto"
      ELSE IF command_lower = W_capture THEN "capture"
      ELSE IF takes(W_manual) THEN "manual"
      ELSE IF takes(W_gain) THEN "gain"
      ELSE IF takes(W_comp) THEN "comp"
      ELSE IF takes(W_quality) THEN "quality"
      ELSE IF takes(W_brightness) THEN "brightness"
      ELSE IF takes(W_contrast) THEN "contrast"
      ELSE IF takes(W_saturation) THEN "saturation"
      ELSE IF takes(W_sharpness) THEN "sharpness"
      ELSE IF takes(W_res) THEN "res"
      ELSE IF command_lower = W_resolutions THEN "resolutions"
      ELSE "unknown"

\* the branch taken by each line of the model
LineBranch == [raw \in Lines |-> Dispatch(raw)]

\* parts[1] of the code: the argument of a command
Argument(raw) == Split(Strip(raw))[2]

\* the end of one pass of the loop body: back to `while True`
Finish(raw, rq, an, o, rt, wr) ==
  /\ input' = [kind |-> "line", text |-> raw]
  /\ reqs' = rq
  /\ answers' = an
  /\ out' = o
  /\ ret' = rt
  /\ written' = wr
  /\ pc' = "command_done"
  /\ UNCHANGED <<args, main_sent, settings_changed, exitCode, exc, kwargs, net, main_failed>>

\* an exception that no handler of the loop catches: it leaves
\* interactive_mode and main, and the interpreter exits with code 1
Escape(raw, rq, an, o, rt, e) ==
  /\ input' = [kind |-> "line", text |-> raw]
  /\ reqs' = rq
  /\ answers' = an
  /\ out' = o
  /\ ret' = rt
  /\ written' = <<>>
  /\ pc' = "exited"
  /\ exitCode' = Some(1)
  /\ exc' = e
  /\ UNCHANGED <<args, main_sent, settings_changed, kwargs, net, main_failed>>

\* a variant of Leave: the loop is not left
LeaveKeepsLooping(inp, o) ==
  /\ input' = inp
  /\ reqs' = <<>>
  /\ answers' = <<>>
  /\ out' = o
  /\ ret' = NoRet
  /\ written' = <<>>
  /\ pc' = "command_done"
  /\ UNCHANGED <<args, main_sent, settings_changed, exitCode, exc, kwargs, net, main_failed>>

\* interactive_mode returns and main returns 0
Leave(inp, o) ==
  /\ input' = inp
  /\ reqs' = <<>>
  /\ answers' = <<>>
  /\ out' = o
  /\ ret' = NoRet
  /\ written' = <<>>
  /\ pc' = "exited"
  /\ exitCode' = Some(0)
  /\ UNCHANGED <<args, main_sent, settings_changed, exc, kwargs, net, main_failed>>

\* input("\n> "): the next pass of the loop waits for a line
Prompt ==
  /\ pc \in {"banner_done", "command_done"}
  /\ pc' = "prompt"
  /\ input' = NoInput
  /\ reqs' = <<>>
  /\ answers' = <<>>
  /\ out' = <<Msg("> ")>>
  /\ ret' = NoRet
  /\ written' = <<>>
  /\ UNCHANGED <<args, main_sent, settings_changed, exitCode, exc, kwargs, net, main_failed>>

DoCapture(tag) ==
  /\ \E raw \in Lines :
       /\ LineBranch[raw] = tag
       /\ \E resp \in CaptureResponses :
            LET r == CaptureImage(resp, NoFile)
            IN  Finish(raw, r.reqs, r.answers, r.out, r.ret, r.written)

CmdEmpty ==
  /\ pc = "prompt"
  /\ DoCapture("empty")

CmdCapture ==
  /\ pc = "prompt"
  /\ DoCapture("capture")

CmdQuit ==
  /\ pc = "prompt"
  /\ \E raw \in Lines :
       /\ LineBranch[raw] = "quit"
       /\ Leave([kind |-> "line", text |-> raw], <<Msg("Goodbye!")>>)

CmdHelp ==
  /\ pc = "prompt"
  /\ \E raw \in Lines :
       /\ LineBranch[raw] = "help"
       /\ Finish(raw, <<>>, <<>>, <<Msg("CAMERA CONTROL COMMANDS")>>, NoRet, <<>>)

CmdStatus ==
  /\ pc = "prompt"
  /\ \E raw \in Lines :
       /\ LineBranch[raw] = "status"
       /\ \E resp \in StatusResponses :
            LET r == PrintStatus(resp)
            IN  Finish(raw, r.reqs, r.answers, r.out, r.ret, <<>>)

KwAuto == [NoKwargs EXCEPT !["aec"] = Some(1), !["gain_ctrl"] = Some(1)]

CmdAuto ==
  /\ pc = "prompt"
  /\ \E raw \in Lines :
       /\ LineBranch[raw] = "auto"
       /\ \E resps \in ResponsesFor(KwAuto) :
            LET r == ApplyCameraSettings(KwAuto, resps)
            IN  Finish(raw, r.reqs, r.answers, r.out, r.ret, <<>>)

\* the branches `<word> <int>`: parse, validate, apply
SetCommand(raw, n, valid, kw, rangeError, formatError, note) ==
  IF n.ok
  THEN IF valid
       THEN \E resps \in ResponsesFor(kw) :
              LET r == ApplyCameraSettings(kw, resps)
              IN  Finish(raw, r.reqs, r.answers, r.out \o note, r.ret, <<>>)
       ELSE Finish(raw, <<>>, <<>>, <<Msg(rangeError)>>, NoRet, <<>>)
  ELSE Finish(raw, <<>>, <<>>, <<Msg(formatError)>>, NoRet, <<>>)

\* a variant of ValidExposure: the upper end excluded
ValidExposureExclusive(v) == 0 <= v /\ v < 1200

ValidExposure(v) == 0 <= v /\ v <= 1200

KwManual(v) == [NoKwargs EXCEPT !["aec"] = Some(0), !["aec_value"] = Some(v)]

CmdManual ==
  /\ pc = "prompt"
  /\ \E raw \in Lines :
       /\ LineBranch[raw] = "manual"
       /\ LET n == ParseInt(Argument(raw))
          IN  SetCommand(raw, n, ValidExposure(n.val), KwManual(n.val),
                         "Error: Exposure value must be between 0 and 1200",
                         "Error: Invalid exposure value", <<>>)

ValidGain(v) == 0 <= v /\ v <= 30

KwGain(v) == [NoKwargs EXCEPT !["gain_ctrl"] = Some(0), !["agc_gain"] = Some(v)]

CmdGain ==
  /\ pc = "prompt"
  /\ \E raw \in Lines :
       /\ LineBranch[raw] = "gain"
       /\ LET n == ParseInt(Argument(raw))
          IN  SetCommand(raw, n, ValidGain(n.val), KwGain(n.val),
                         "Error: Gain value must be between 0 and 30",
                         "Error: Invalid gain value", <<>>)

ValidComp(v) == 0 - 2 <= v /\ v <= 2

KwComp(v) == [NoKwargs EXCEPT !["ae_level"] = Some(v)]

CmdComp ==
  /\ pc = "prompt"
  /\ \E raw \in Lines :
       /\ LineBranch[raw] = "comp"
       /\ LET n == ParseInt(Argument(raw))
          IN  SetCommand(raw, n, ValidComp(n.val), KwComp(n.val),
                         "Error: Compensation value must be between -2 and 2",
                         "Error: Invalid compensation value", <<>>)

ValidQuality(v) == 0 <= v /\ v <= 63

KwQuality(v) == [NoKwargs EXCEPT !["quality"] = Some(v)]

CmdQuality ==
  /\ pc = "prompt"
  /\ \E raw \in Lines :
       /\ LineBranch[raw] = "quality"
       /\ LET n == ParseInt(Argument(raw))
          IN  SetCommand(raw, n, ValidQuality(n.val), KwQuality(n.val),
                         "Error: Quality value must be between 0 and 63",
                         "Error: Invalid quality value",
                         <<Msg("Note: Lower quality numbers = better image quality")>>)

ValidBrightness(v) == 0 - 2 <= v /\ v <= 2

KwBrightness(v) == [NoKwargs EXCEPT !["brightness"] = Some(v)]

CmdBrightness ==
  /\ pc = "prompt"
  /\ \E raw \in Lines :
       /\ LineBranch[raw] = "brightness"
       /\ LET n == ParseInt(Argument(raw))
          IN  SetCommand(raw, n, ValidBrightness(n.val), KwBrightness(n.val),
                         "Error: Brightness value must be between -2 and 2",
                         "Error: Invalid brightness value", <<Msg("Brightness set")>>)

ValidContrast(v) == 0 - 2 <= v /\ v <= 2

KwContrast(v) == [NoKwargs EXCEPT !["contrast"] = Some(v)]

CmdContrast ==
  /\ pc = "prompt"
  /\ \E raw \in Lines :
       /\ LineBranch[raw] = "contrast"
       /\ LET n == ParseInt(Argument(raw))
          IN  SetCommand(raw, n, ValidContrast(n.val), KwContrast(n.val),
                         "Error: Contrast value must be between -2 and 2",
                         "Error: Invalid contrast value", <<Msg("Contrast set")>>)

ValidSaturation(v) == 0 - 2 <= v /\ v <= 2

KwSaturation(v) == [NoKwargs EXCEPT !["saturation"] = Some(v)]

CmdSaturation ==
  /\ pc = "prompt"
  /\ \E raw \in Lines :
       /\ LineBranch[raw] = "saturation"
       /\ LET n == ParseInt(Argument(raw))
          IN  SetCommand(raw, n, ValidSaturation(n.val), KwSaturation(n.val),
                         "Error: Saturation value must be between -2 and 2",
                         "Error: Invalid saturation value", <<Msg("Saturation set")>>)

ValidSharpness(v) == 0 - 2 <= v /\ v <= 2

KwSharpness(v) == [NoKwargs EXCEPT !["sharpness"] = Some(v)]

CmdSharpness ==
  /\ pc = "prompt"
  /\ \E raw \in Lines :
       /\ LineBranch[raw] = "sharpness"
       /\ LET n == ParseInt(Argument(raw))
          IN  SetCommand(raw, n, ValidSharpness(n.val), KwSharpness(n.val),
                         "Error: Sharpness value must be between -2 and 2",
                         "Error: Invalid sharpness value", <<Msg("Sharpness set")>>)

KwFramesize(framesize) == [NoKwargs EXCEPT !["framesize"] = Some(framesize)]

\* `res <name>`: the request is sent before the label is looked up, and the
\* lookup raises KeyError when the code is no key of RESOLUTION_NAMES
CmdRes ==
  /\ pc = "prompt"
  /\ \E raw \in Lines :
       /\ LineBranch[raw] = "res"
       /\ LET res_name == Lower(Argument(raw))
          IN  IF InResolutions(res_name)
              THEN LET framesize == ResolutionCode(res_name)
                   IN  \E resps \in ResponsesFor(KwFramesize(framesize)) :
                         LET r == ApplyCameraSettings(KwFramesize(framesize), resps)
                         IN  IF HasResolutionName(framesize)
                             THEN Finish(raw, r.reqs, r.answers,
                                         Append(r.out, MsgVar("Resolution set to",
                                                  RESOLUTION_NAMES[framesize], framesize)),
                                         r.ret, <<>>)
                             ELSE Escape(raw, r.reqs, r.answers, r.out, r.ret, "KeyError")
              ELSE Finish(raw, <<>>, <<>>,
                          <<MsgName("Error: Unknown resolution", Argument(raw), 0),
                            Msg("Available: qxga, uxga, sxga, xga, svga, vga, hvga, cif, qvga")>>,
                          NoRet, <<>>)

\* sorted(RESOLUTIONS.items(), key=lambda x: x[1], reverse=True)
RECURSIVE SortedByCodeDesc(_)
SortedByCodeDesc(S) ==
  IF S = {} THEN <<>>
  ELSE LET top == CHOOSE e \in S : \A f \in S : f.code <= e.code
       IN  <<top>> \o SortedByCodeDesc(S \ {top})

\* the loop that prints one line per resolution, until a label is missing
RECURSIVE PrintResolutions(_, _, _)
PrintResolutions(items, i, printed) ==
  IF i > Len(items) THEN [out |-> printed, exc |-> ""]
  ELSE IF HasResolutionName(items[i].code)
       THEN PrintResolutions(items, i + 1,
              Append(printed, [msg |-> "resolution", var |-> RESOLUTION_NAMES[items[i].code],
                               name |-> items[i].name, num |-> items[i].code]))
       ELSE [out |-> printed, exc |-> "KeyError"]

CmdResolutions ==
  /\ pc = "prompt"
  /\ \E raw \in Lines :
       /\ LineBranch[raw] = "resolutions"
       /\ LET items == SortedByCodeDesc({RESOLUTIONS[i] : i \in 1..Len(RESOLUTIONS)})
              r == PrintResolutions(items, 1, <<Msg("Available Resolutions:")>>)
          IN  IF r.exc = ""
              THEN Finish(raw, <<>>, <<>>, r.out, NoRet, <<>>)
              ELSE Escape(raw, <<>>, <<>>, r.out, NoRet, r.exc)

CmdUnknown ==
  /\ pc = "prompt"
  /\ \E raw \in Lines :
       /\ LineBranch[raw] = "unknown"
       /\ Finish(raw, <<>>, <<>>,
                 <<MsgName("Unknown command", Strip(raw), 0),
                   Msg("Type 'help' or '?' for available commands, or press ENTER to capture")>>,
                 NoRet, <<>>)

\* input() raises EOFError: the loop ends silently
InputEOF ==
  /\ pc = "prompt"
  /\ Leave([kind |-> "eof", text |-> <<>>], <<>>)

\* Ctrl-C while input() waits: KeyboardInterrupt
InputInterrupt ==
  /\ pc = "prompt"
  /\ Leave([kind |-> "interrupt", text |-> <<>>], <<Msg("Interrupted by user. Goodbye!")>>)

Next ==
  \/ MainExposure
  \/ MainExposureComp
  \/ MainGain
  \/ MainQuality
  \/ MainResolution
  \/ MainCapture
  \/ CallInteractive
  \/ EnterShell
  \/ Prompt
  \/ CmdEmpty
  \/ CmdCapture
  \/ CmdQuit
  \/ CmdHelp
  \/ CmdStatus
  \/ CmdAuto
  \/ CmdManual
  \/ CmdGain
  \/ CmdComp
  \/ CmdQuality
  \/ CmdBrightness
  \/ CmdContrast
  \/ CmdSaturation
  \/ CmdSharpness
  \/ CmdRes
  \/ CmdResolutions
  \/ CmdUnknown
  \/ InputEOF
  \/ InputInterrupt

Spec == Init /\ [][Next]_vars

(***************************************************************************)
(* apply_camera_settings called directly, with any keyword arguments.      *)
(***************************************************************************)
\* a value for each keyword argument, inside the documented ranges
SampleValue ==
  [p \in ParamSet |->
     CASE p = "aec" -> 0
       [] p = "aec_value" -> 300
       [] p = "ae_level" -> 0 - 1
       [] p = "gain_ctrl" -> 1
       [] p = "agc_gain" -> 10
       [] p = "quality" -> 12
       [] p = "framesize" -> 8
       [] p = "brightness" -> 2
       [] p = "contrast" -> 0 - 2
       [] p = "saturation" -> 1
       [] p = "sharpness" -> 0]

KwargsSets ==
  {[p \in ParamSet |-> IF p \in S THEN Some(SampleValue[p]) ELSE None] :
     S \in {T \in SUBSET ParamSet : Cardinality(T) <= MaxParams}}

InitApply ==
  /\ pc = "apply_call"
  /\ kwargs \in KwargsSets
  /\ args = NoArgs
  /\ input = NoInput
  /\ reqs = <<>>
  /\ answers = <<>>
  /\ main_sent = <<>>
  /\ out = <<>>
  /\ ret = NoRet
  /\ written = <<>>
  /\ settings_changed = FALSE
  /\ exitCode = None
  /\ exc = ""
  /\ host = H_1_2_3_4
  /\ esp32_host = H_1_2_3_4
  /\ ZEROCONF_AVAILABLE = TRUE
  /\ advertised = {}
  /\ listener = NoListener
  /\ callback = IdleCallback
  /\ zc = NoZeroconf
  /\ resolved_ip = NoAddr
  /\ resolver_runs = 1
  /\ main_failed = FALSE

CallApply ==
  /\ pc = "apply_call"
  /\ \E resps \in ResponsesFor(kwargs) :
       LET r == ApplyCameraSettings(kwargs, resps)
       IN  /\ reqs' = r.reqs
           /\ answers' = r.answers
           /\ out' = r.out
           /\ ret' = r.ret
  /\ pc' = "apply_returned"
  /\ UNCHANGED <<args, main_sent, input, written, settings_changed, exitCode, exc, kwargs, net, main_failed>>

NextApply == CallApply

SpecApply == InitApply /\ [][NextApply]_vars

(***************************************************************************)
(* main, lines 631-659: the host argument is cleaned and, when it is a     *)
(* discovery name, resolved through mDNS.                                  *)
(***************************************************************************)
\* most trailing slashes on the host argument
MaxSlashes == 2
\* most services the browser reports during one resolution
MaxServices == 2
\* sleeps of the polling loop before its timeout expires (timeout / 0.1 s)
MaxPolls == 3

T_http == <<"h", "t", "t", "p", ":", "/", "/">>
T_https == <<"h", "t", "t", "p", "s", ":", "/", "/">>
T_HTTP == <<"H", "T", "T", "P", ":", "/", "/">>
T_local == <<".", "l", "o", "c", "a", "l">>
H_cam == <<"c", "a", "m">>
H_cam_local == <<"c", "a", "m", ".", "l", "o", "c", "a", "l">>
H_cam_local_dot == <<"c", "a", "m", ".", "l", "o", "c", "a", "l", ".">>
H_Cam_local_dot == <<"C", "a", "m", ".", "l", "o", "c", "a", "l", ".">>
H_other_local_dot == <<"o", "t", "h", "e", "r", ".", "l", "o", "c", "a", "l", ".">>

\* s[i], s[i+1], ... spell pat
MatchAt(s, pat, i) ==
  /\ i + Len(pat) - 1 <= Len(s)
  /\ \A k \in 1..Len(pat) : s[i + k - 1] = pat[k]

\* str.replace(old, new) from position i on: occurrences left to right,
\* never overlapping
RECURSIVE ReplaceFrom(_, _, _, _)
ReplaceFrom(s, old, new, i) ==
  IF i > Len(s) THEN <<>>
  ELSE IF MatchAt(s, old, i) THEN new \o ReplaceFrom(s, old, new, i + Len(old))
  ELSE <<s[i]>> \o ReplaceFrom(s, old, new, i + 1)

Replace(s, old, new) == ReplaceFrom(s, old, new, 1)

\* str.rstrip(chars)
RECURSIVE RStripChars(_, _)
RStripChars(s, chars) ==
  IF s # <<>> /\ s[Len(s)] \in chars THEN RStripChars(SubSeq(s, 1, Len(s) - 1), chars) ELSE s

\* str.endswith(suffix)
EndsWith(s, suffix) ==
  Len(suffix) <= Len(s) /\ MatchAt(s, suffix, Len(s) - Len(suffix) + 1)

\* c in s
HasChar(s, c) == \E i \in 1..Len(s) : s[i] = c

\* a variant of CleanHost: trailing slashes kept
CleanHostKeepsSlash(h) == Replace(Replace(h, T_http, <<>>), T_https, <<>>)

\* esp32_host.replace('http://', '').replace('https://', '').rstrip('/')
CleanHost(h) == RStripChars(Replace(Replace(h, T_http, <<>>), T_https, <<>>), {"/"})

\* esp32_host.endswith('.local') or ('.' not in esp32_host)
NeedsDiscovery(h) == EndsWith(h, T_local) \/ ~HasChar(h, ".")

\* the host arguments of the model: an address, a bare name and a .local
\* name, each plain or behind a scheme, with trailing slashes
Schemes == {<<>>, T_http, T_https, T_HTTP}

HostBodies == {H_1_2_3_4, H_cam, H_cam_local}

RECURSIVE Slashes(_)
Slashes(n) == IF n = 0 THEN <<>> ELSE <<"/">> \o Slashes(n - 1)

Hosts == {sch \o body \o Slashes(n) : sch \in Schemes, body \in HostBodies, n \in 0..MaxSlashes}

\* lines 631-636
MainHost ==
  /\ pc = "main_host"
  /\ esp32_host' = CleanHost(host)
  /\ resolver_runs' = resolver_runs + 1
  /\ pc' = "main_discovery"
  /\ UNCHANGED <<args, input, reqs, answers, main_sent, out, ret, written, settings_changed,
                 exitCode, exc, kwargs, host, ZEROCONF_AVAILABLE, advertised, listener,
                 callback, zc, resolved_ip, main_failed>>

\* lines 639-652: without zeroconf a discovery name ends the run with the
\* installation advice; with it resolve_mdns_fast is called
MainDiscovery ==
  /\ pc = "main_discovery"
  /\ IF NeedsDiscovery(esp32_host)
     THEN IF ~ZEROCONF_AVAILABLE
          THEN /\ out' = <<Msg("ERROR: 'zeroconf' library is required for mDNS hostnames")>>
               /\ pc' = "exited"
               /\ exitCode' = Some(1)
          ELSE /\ pc' = "resolve_call"
               /\ UNCHANGED <<out, exitCode>>
     ELSE /\ pc' = "main_exposure"
          /\ UNCHANGED <<out, exitCode>>
  /\ UNCHANGED <<args, input, reqs, answers, main_sent, ret, written, settings_changed,
                 exc, kwargs, net, main_failed>>

\* a variant of MainResolved: an unresolved name is used as it is
MainResolvedFallsBack ==
  /\ pc = "resolve_returned"
  /\ out' = Append(out, Msg("Using resolved IP"))
  /\ esp32_host' = IF resolved_ip.some THEN resolved_ip.text ELSE esp32_host
  /\ pc' = "main_exposure"
  /\ UNCHANGED <<args, input, reqs, answers, main_sent, ret, written, settings_changed,
                 exitCode, exc, kwargs, host, ZEROCONF_AVAILABLE, advertised, listener,
                 callback, zc, resolved_ip, resolver_runs, main_failed>>

\* lines 653-659
MainResolved ==
  /\ pc = "resolve_returned"
  /\ IF resolved_ip.some /\ resolved_ip.text # <<>>
     THEN /\ out' = Append(out, Msg("Using resolved IP"))
          /\ esp32_host' = resolved_ip.text
          /\ pc' = "main_exposure"
          /\ UNCHANGED exitCode
     ELSE /\ out' = out \o <<Msg("mDNS resolution failed - camera not found"),
                             Msg("Make sure the camera is powered on and connected to WiFi")>>
          /\ pc' = "exited"
          /\ exitCode' = Some(1)
          /\ UNCHANGED esp32_host
  /\ UNCHANGED <<args, input, reqs, answers, main_sent, ret, written, settings_changed,
                 exc, kwargs, host, ZEROCONF_AVAILABLE, advertised, listener, callback, zc,
                 resolved_ip, resolver_runs, main_failed>>

(***************************************************************************)
(* resolve_mdns_fast and the CameraServiceListener: the calling thread      *)
(* polls listener.found while the browser thread runs add_service.         *)
(***************************************************************************)
\* the decimal digits of a byte, as str() writes them
DecimalDigits == <<"0", "1", "2", "3", "4", "5", "6", "7", "8", "9">>

RECURSIVE Decimal(_)
Decimal(n) ==
  IF n < 10 THEN <<DecimalDigits[n + 1]>> ELSE Decimal(n \div 10) \o Decimal(n % 10)

\* socket.inet_ntoa: four bytes to dotted-quad text
InetNtoa(b) ==
  Decimal(b[1]) \o <<".">> \o Decimal(b[2]) \o <<".">> \o Decimal(b[3]) \o <<".">> \o Decimal(b[4])

Addr_7 == <<10, 0, 0, 7>>

Addr_8 == <<192, 168, 1, 80>>

\* the services the network may advertise: the camera under its .local name
\* (with one address, with two, with none), under its bare name, another
\* device, a name differing in case, and one whose information cannot be read
Services ==
  {ServiceInfo(H_cam_local_dot, <<Addr_7>>),
   ServiceInfo(H_cam_local_dot, <<Addr_8, Addr_7>>),
   ServiceInfo(H_cam_local, <<>>),
   ServiceInfo(H_cam, <<Addr_8>>),
   ServiceInfo(H_other_local_dot, <<Addr_8>>),
   ServiceInfo(H_Cam_local_dot, <<Addr_7>>),
   NoService}

\* line 91, on the server name without its trailing dots
ServerMatches(server, hostname) ==
  \/ RStripChars(server, {"."}) = hostname
  \/ RStripChars(server, {"."}) = hostname \o T_local

\* the browser thread enters add_service for a service it has found and not
\* yet reported (line 87); it reports nothing new once cancelled
AddService ==
  /\ zc.browser = "running"
  /\ callback.pc = "idle"
  /\ \E s \in advertised \ zc.reported :
       /\ callback' = [pc |-> "got_info", service |-> s]
       /\ zc' = [zc EXCEPT !.reported = zc.reported \cup {s}]
  /\ UNCHANGED <<pc, args, input, reqs, answers, main_sent, out, ret, written,
                 settings_changed, exitCode, exc, kwargs, host, esp32_host,
                 ZEROCONF_AVAILABLE, advertised, listener, resolved_ip, resolver_runs,
                 main_failed>>

\* lines 88-92
CheckService ==
  /\ callback.pc = "got_info"
  /\ callback' =
       IF /\ callback.service.info
          /\ ServerMatches(callback.service.server, listener.hostname)
          /\ callback.service.addresses # <<>>
       THEN [callback EXCEPT !.pc = "write_ip"]
       ELSE IdleCallback
  /\ UNCHANGED <<pc, args, input, reqs, answers, main_sent, out, ret, written,
                 settings_changed, exitCode, exc, kwargs, host, esp32_host,
                 ZEROCONF_AVAILABLE, advertised, listener, zc, resolved_ip, resolver_runs,
                 main_failed>>

\* a variant of WriteIpAddress: found is set in the same step, before the address
WriteFoundFirst ==
  /\ callback.pc = "write_ip"
  /\ listener' = [listener EXCEPT !.found = TRUE]
  /\ callback' = [callback EXCEPT !.pc = "write_found"]
  /\ UNCHANGED <<pc, args, input, reqs, answers, main_sent, out, ret, written,
                 settings_changed, exitCode, exc, kwargs, host, esp32_host,
                 ZEROCONF_AVAILABLE, advertised, zc, resolved_ip, resolver_runs, main_failed>>

\* line 93
WriteIpAddress ==
  /\ callback.pc = "write_ip"
  /\ listener' = [listener EXCEPT
                    !.ip_address = SomeAddr(InetNtoa(callback.service.addresses[1]))]
  /\ callback' = [callback EXCEPT !.pc = "write_found"]
  /\ UNCHANGED <<pc, args, input, reqs, answers, main_sent, out, ret, written,
                 settings_changed, exitCode, exc, kwargs, host, esp32_host,
                 ZEROCONF_AVAILABLE, advertised, zc, resolved_ip, resolver_runs, main_failed>>

\* lines 94-95
WriteFound ==
  /\ callback.pc = "write_found"
  /\ listener' = [listener EXCEPT !.found = TRUE]
  /\ out' = Append(out, Msg("Found"))
  /\ callback' = IdleCallback
  /\ UNCHANGED <<pc, args, input, reqs, answers, main_sent, ret, written,
                 settings_changed, exitCode, exc, kwargs, host, esp32_host,
                 ZEROCONF_AVAILABLE, advertised, zc, resolved_ip, resolver_runs, main_failed>>

\* what every step of the calling thread inside resolve_mdns_fast leaves alone
ResolverFrame ==
  UNCHANGED <<args, input, reqs, answers, main_sent, ret, written, settings_changed,
              exitCode, exc, kwargs, host, esp32_host, ZEROCONF_AVAILABLE, advertised,
              callback, resolver_runs, main_failed>>

\* lines 115-121
ResolveCall ==
  /\ pc = "resolve_call"
  /\ IF ~ZEROCONF_AVAILABLE
     THEN /\ resolved_ip' = NoAddr
          /\ pc' = "resolve_returned"
          /\ UNCHANGED out
     ELSE /\ out' = <<Msg("Resolving via mDNS...")>>
          /\ pc' = "mdns_start"
          /\ UNCHANGED resolved_ip
  /\ UNCHANGED <<listener, zc>>
  /\ ResolverFrame

\* lines 124-126; a constructor that raises is caught at line 142
ZeroconfStart ==
  /\ pc = "mdns_start"
  /\ \/ /\ zc' = [zeroconf |-> "open", browser |-> "running", elapsed |-> 0,
                   reported |-> {}]
        /\ listener' = [hostname |-> Replace(esp32_host, T_local, <<>>),
                        ip_address |-> NoAddr, found |-> FALSE]
        /\ pc' = "mdns_poll"
        /\ UNCHANGED <<out, resolved_ip>>
     \/ /\ out' = Append(out, Msg("mDNS resolution error"))
        /\ resolved_ip' = NoAddr
        /\ pc' = "resolve_returned"
        /\ UNCHANGED <<zc, listener>>
  /\ ResolverFrame

\* lines 130-131: one test of the loop condition and, if it holds, one sleep
Poll ==
  /\ pc = "mdns_poll"
  /\ IF ~listener.found /\ zc.elapsed < MaxPolls
     THEN /\ zc' = [zc EXCEPT !.elapsed = zc.elapsed + 1]
          /\ UNCHANGED pc
     ELSE /\ pc' = "mdns_cancel"
          /\ UNCHANGED zc
  /\ UNCHANGED <<out, listener, resolved_ip>>
  /\ ResolverFrame

\* line 133
BrowserCancel ==
  /\ pc = "mdns_cancel"
  /\ zc' = [zc EXCEPT !.browser = "cancelled"]
  /\ pc' = "mdns_close"
  /\ UNCHANGED <<out, listener, resolved_ip>>
  /\ ResolverFrame

\* line 134
ZeroconfClose ==
  /\ pc = "mdns_close"
  /\ zc' = [zc EXCEPT !.zeroconf = "closed"]
  /\ pc' = "mdns_found"
  /\ UNCHANGED <<out, listener, resolved_ip>>
  /\ ResolverFrame

\* lines 136, 138-140
ReadFound ==
  /\ pc = "mdns_found"
  /\ IF listener.found
     THEN /\ pc' = "mdns_return"
          /\ UNCHANGED <<out, resolved_ip>>
     ELSE /\ out' = Append(out, Msg("mDNS resolution timed out"))
          /\ resolved_ip' = NoAddr
          /\ pc' = "resolve_returned"
  /\ UNCHANGED <<listener, zc>>
  /\ ResolverFrame

\* line 137
ReturnIpAddress ==
  /\ pc = "mdns_return"
  /\ resolved_ip' = listener.ip_address
  /\ pc' = "resolve_returned"
  /\ UNCHANGED <<out, listener, zc>>
  /\ ResolverFrame

(***************************************************************************)
(* A run of main from its first line: the host, then the settings flags,   *)
(* then the capture or the shell.                                          *)
(***************************************************************************)
\* most settings flags on the command line of such a run
MaxOneShotFlags == 2

CameraService == ServiceInfo(H_cam_local_dot, <<Addr_7>>)

OtherService == ServiceInfo(H_other_local_dot, <<Addr_8>>)

PhotoArgs == [NoArgs EXCEPT !.output = File("photo.jpg")]

\* the runs of the model: every host with and without zeroconf, the camera
\* advertised or not, with and without an output file; and an address and a
\* .local name with every choice of flags
OneShotRuns ==
  {[host |-> h, available |-> z, advertised |-> S, args |-> a] :
     h \in Hosts, z \in BOOLEAN, S \in SUBSET {CameraService, OtherService},
     a \in {NoArgs, PhotoArgs}}
  \cup
  {[host |-> h, available |-> TRUE, advertised |-> {CameraService}, args |-> a] :
     h \in {H_1_2_3_4, H_cam_local},
     a \in {b \in AllArgs : FlagCount(b) <= MaxOneShotFlags}}

InitOneShot ==
  /\ pc = "main_host"
  /\ \E run \in OneShotRuns :
       /\ host = run.host
       /\ ZEROCONF_AVAILABLE = run.available
       /\ advertised = run.advertised
       /\ args = run.args
  /\ esp32_host = host
  /\ listener = NoListener
  /\ callback = IdleCallback
  /\ zc = NoZeroconf
  /\ resolved_ip = NoAddr
  /\ resolver_runs = 0
  /\ main_failed = FALSE
  /\ input = NoInput
  /\ reqs = <<>>
  /\ answers = <<>>
  /\ main_sent = <<>>
  /\ out = <<>>
  /\ ret = NoRet
  /\ written = <<>>
  /\ settings_changed = FALSE
  /\ exitCode = None
  /\ exc = ""
  /\ kwargs = NoKwargs

NextOneShot ==
  \/ MainHost
  \/ MainDiscovery
  \/ ResolveCall
  \/ ZeroconfStart
  \/ Poll
  \/ BrowserCancel
  \/ ZeroconfClose
  \/ ReadFound
  \/ ReturnIpAddress
  \/ AddService
  \/ CheckService
  \/ WriteIpAddress
  \/ WriteFound
  \/ MainResolved
  \/ MainExposure
  \/ MainExposureComp
  \/ MainGain
  \/ MainQuality
  \/ MainResolution
  \/ MainCapture
  \/ CallInteractive
  \/ EnterShell

SpecOneShot == InitOneShot /\ [][NextOneShot]_vars

(***************************************************************************)
(* resolve_mdns_fast called for a discovery name, with any services on the *)
(* network.  The calling thread keeps running: a sleep returns.            *)
(***************************************************************************)
InitMdns ==
  /\ pc = "resolve_call"
  /\ host \in {H_cam, H_cam_local}
  /\ esp32_host = host
  /\ ZEROCONF_AVAILABLE \in BOOLEAN
  /\ advertised \in {S \in SUBSET Services : Cardinality(S) <= MaxServices}
  /\ listener = NoListener
  /\ callback = IdleCallback
  /\ zc = NoZeroconf
  /\ resolved_ip = NoAddr
  /\ resolver_runs = 0
  /\ main_failed = FALSE
  /\ args = NoArgs
  /\ input = NoInput
  /\ reqs = <<>>
  /\ answers = <<>>
  /\ main_sent = <<>>
  /\ out = <<>>
  /\ ret = NoRet
  /\ written = <<>>
  /\ settings_changed = FALSE
  /\ exitCode = None
  /\ exc = ""
  /\ kwargs = NoKwargs

ResolverThread ==
  \/ ResolveCall
  \/ ZeroconfStart
  \/ Poll
  \/ BrowserCancel
  \/ ZeroconfClose
  \/ ReadFound
  \/ ReturnIpAddress

NextMdns ==
  \/ ResolveCall
  \/ ZeroconfStart
  \/ Poll
  \/ BrowserCancel
  \/ ZeroconfClose
  \/ ReadFound
  \/ ReturnIpAddress
  \/ AddService
  \/ CheckService
  \/ WriteIpAddress
  \/ WriteFound

SpecMdns == InitMdns /\ [][NextMdns]_vars /\ WF_vars(ResolverThread)

(***************************************************************************)
(* What the specification says, in its own terms.                          *)
(***************************************************************************)
\* the tokens of the line the shell has just handled
InputParts == Split(Strip(input.text))

\* the shell has just handled a non-empty line
HandledLine == input.kind = "line" /\ InputParts # <<>>

SaidUnknown == out # <<>> /\ out[1].msg = "Unknown command"

SentControl == \E i \in DOMAIN reqs : reqs[i].path = "/control"

\* the nine names of the resolution enumeration
SpecResolutionNames ==
  {W_qxga, W_uxga, W_sxga, W_xga, W_svga, W_vga, W_hvga, W_cif, W_qvga}

SpecQuitWords == {W_quit, W_q, W_exit}

SpecNoArgWords ==
  {W_capture, W_status, W_s, W_help, W_h, W_qmark, W_auto, W_resolutions} \cup SpecQuitWords

\* the commands with an integer argument: word, range, request variable
SpecRanges ==
  { [word |-> W_manual,     lo |-> 0,     hi |-> 1200, var |-> "aec_value"],
    [word |-> W_gain,       lo |-> 0,     hi |-> 30,   var |-> "agc_gain"],
    [word |-> W_quality,    lo |-> 0,     hi |-> 63,   var |-> "quality"],
    [word |-> W_comp,       lo |-> 0 - 2, hi |-> 2,    var |-> "ae_level"],
    [word |-> W_brightness, lo |-> 0 - 2, hi |-> 2,    var |-> "brightness"],
    [word |-> W_contrast,   lo |-> 0 - 2, hi |-> 2,    var |-> "contrast"],
    [word |-> W_saturation, lo |-> 0 - 2, hi |-> 2,    var |-> "saturation"],
    [word |-> W_sharpness,  lo |-> 0 - 2, hi |-> 2,    var |-> "sharpness"] }

SpecRangeErrors ==
  {"Error: Exposure value must be between 0 and 1200",
   "Error: Gain value must be between 0 and 30",
   "Error: Quality value must be between 0 and 63",
   "Error: Compensation value must be between -2 and 2",
   "Error: Brightness value must be between -2 and 2",
   "Error: Contrast value must be between -2 and 2",
   "Error: Saturation value must be between -2 and 2",
   "Error: Sharpness value must be between -2 and 2"}

SpecArgWords == {c.word : c \in SpecRanges} \cup {W_res}

(***************************************************************************)
(* C1                                                                      *)
(***************************************************************************)
\* C1: in the shell, for every integer v, `manual v` is accepted and /control
\* requests are issued iff 0 <= v <= 1200, `gain v` iff 0 <= v <= 30,
\* `quality v` iff 0 <= v <= 63, and comp, brightness, contrast, saturation,
\* sharpness each iff -2 <= v <= 2; for a v outside the range the violation is
\* reported and the command sends no HTTP request.
C1_InteractiveValidation ==
  (HandledLine /\ Len(InputParts) >= 2) =>
    \A c \in SpecRanges :
      (InputParts[1] = c.word /\ ParseInt(InputParts[2]).ok) =>
        LET v == ParseInt(InputParts[2]).val
            inrange == c.lo <= v /\ v <= c.hi
        IN  /\ inrange <=> SentControl
            /\ inrange => reqs[Len(reqs)] = ControlReq(c.var, v)
            /\ ~inrange => /\ reqs = <<>>
                           /\ Len(out) = 1
                           /\ out[1].msg \in SpecRangeErrors

\* `manual 1200`, the upper end of the exposure range, has been sent
C1_Witness ==
  /\ input.kind = "line"
  /\ InputParts = <<W_manual, N_1200>>
  /\ reqs = <<ControlReq("aec", 0), ControlReq("aec_value", 1200)>>

(***************************************************************************)
(* C2                                                                      *)
(***************************************************************************)
C2_FlagOutOfRange(a) ==
  \/ a.manual_exposure.some /\ ~(0 <= a.manual_exposure.val /\ a.manual_exposure.val <= 1200)
  \/ a.manual_gain.some /\ ~(0 <= a.manual_gain.val /\ a.manual_gain.val <= 30)
  \/ a.exposure_comp.some /\ ~(0 - 2 <= a.exposure_comp.val /\ a.exposure_comp.val <= 2)
  \/ a.quality.some /\ ~(0 <= a.quality.val /\ a.quality.val <= 63)

\* C2: in a flag-driven run, when any supplied flag value is outside its
\* range (--manual-exposure [0,1200], --manual-gain [0,30], --exposure-comp
\* [-2,2], --quality [0,63]) no HTTP request at all is sent during the run.
C2_NoRequestOnInvalidFlag == C2_FlagOutOfRange(args) => main_sent = <<>>

(***************************************************************************)
(* C3                                                                      *)
(***************************************************************************)
\* C3: the loop never aborts on a command: every input line other than
\* quit/q/exit returns to "awaiting command", the loop ends only on a quit
\* command, end of input or an interrupt, and no exception escapes
\* interactive_mode.
C3_LoopNeverAborts ==
  input.kind = "line" =>
    /\ exc = ""
    /\ IF Lower(Strip(input.text)) \in SpecQuitWords
       THEN pc = "exited"
       ELSE pc = "command_done"

C5_ResolutionsTable ==
  (input.kind = "line" /\ Lower(Strip(input.text)) = W_resolutions) =>
    LET entries == SelectSeq(out, LAMBDA m : m.msg = "resolution")
    IN  /\ pc = "command_done"
        /\ reqs = <<>>
        /\ Len(entries) = 9
        /\ {entries[i].name : i \in 1..Len(entries)} = SpecResolutionNames
        /\ \A i \in 1..(Len(entries) - 1) : entries[i].num > entries[i + 1].num

(***************************************************************************)
(* C6                                                                      *)
(***************************************************************************)
\* C6: apply_camera_settings issues exactly one /control request for each
\* keyword argument that is not None, in the fixed order of the parameters,
\* whether or not earlier requests failed, and returns True iff every
\* request was answered with status 200; with no argument present it issues
\* no request and returns False.
C6_ApplyIssuesAll ==
  pc = "apply_returned" =>
    LET present == SelectSeq(ParamOrder, LAMBDA p : kwargs[p].some)
    IN  /\ Len(reqs) = Len(present)
        /\ \A i \in 1..Len(present) :
             reqs[i] = ControlReq(present[i], kwargs[present[i]].val)
        /\ Len(answers) = Len(reqs)
        /\ ret = BoolRet(/\ present # <<>>
                         /\ \A i \in 1..Len(answers) :
                              answers[i].kind = "http" /\ answers[i].status = 200)

\* three settings, the second of which the device refuses: all three
\* requests are issued and the call returns False
C6_Witness ==
  /\ pc = "apply_returned"
  /\ Len(reqs) = 3
  /\ Len(answers) = 3
  /\ answers[1].kind = "http" /\ answers[1].status = 200
  /\ answers[2].kind = "http" /\ answers[2].status = 500
  /\ answers[3].kind = "http" /\ answers[3].status = 200
  /\ ret = BoolRet(FALSE)

(***************************************************************************)
(* C7                                                                      *)
(***************************************************************************)
\* capture_image logs "Requesting image" before anything else
CaptureCalled == out # <<>> /\ out[1].msg = "Requesting image"

C8_GetStatus ==
  \A i \in DOMAIN reqs :
    reqs[i].path = "/status" =>
      /\ ret.kind = "status"
      /\ IF answers[i].kind = "http" /\ answers[i].status = 200 /\ answers[i].payload.wellformed
         THEN LET members == answers[i].payload.members
              IN  /\ ret.status.some
                  /\ DOMAIN ret.status.dict = {members[j].key : j \in 1..Len(members)}
                  /\ \A j \in 1..Len(members) :
                       (\A k \in (j + 1)..Len(members) : members[k].key # members[j].key)
                         => ret.status.dict[members[j].key] = members[j].value
         ELSE ret.status = NoDict

\* a 200 payload with two different fields has been returned as a
\* dictionary of two fields
C8_Witness ==
  /\ reqs = <<StatusReq>>
  /\ answers[1].kind = "http" /\ answers[1].status = 200
  /\ ret.status.some
  /\ Cardinality(DOMAIN ret.status.dict) = 2

(***************************************************************************)
(* C9                                                                      *)
(***************************************************************************)
\* C9: an empty line, and a `capture` line, trigger exactly one capture call
\* and the shell prompts again; quit, q or exit ends the loop with no further
\* prompt and no further HTTP request, and the process exits with code 0.
C9_CaptureAndQuit ==
  input.kind = "line" =>
    LET command == Strip(input.text)
    IN  /\ (command = <<>> \/ Lower(command) = W_capture) =>
             /\ CaptureCalled
             /\ reqs = <<CaptureReq>>
             /\ pc = "command_done"
             /\ ENABLED Prompt
        /\ Lower(command) \in SpecQuitWords =>
             /\ pc = "exited"
             /\ reqs = <<>>
             /\ exitCode = Some(0)
             /\ exc = ""
             /\ ~ENABLED Next

\* an empty line has triggered one capture
C9_Witness ==
  /\ input.kind = "line"
  /\ Strip(input.text) = <<>>
  /\ reqs = <<CaptureReq>>
  /\ pc = "command_done"

(***************************************************************************)
(* C10                                                                     *)
(***************************************************************************)
\* C10, as claimed: the first token alone selects the action, so "Unknown
\* command" is never printed for a line whose first token is a command word.
C10_FirstTokenSelects ==
  (HandledLine /\ InputParts[1] \in SpecNoArgWords \cup SpecArgWords) => ~SaidUnknown

\* what a line of one token, a command without argument, does
C10_NoArgAction(w) ==
  CASE w = W_capture -> reqs = <<CaptureReq>>
    [] w \in {W_status, W_s} -> reqs = <<StatusReq>>
    [] w \in {W_help, W_h, W_qmark} -> reqs = <<>> /\ out[1].msg = "CAMERA CONTROL COMMANDS"
    [] w \in SpecQuitWords -> reqs = <<>> /\ pc = "exited" /\ out[1].msg = "Goodbye!"
    [] w = W_auto -> reqs = <<ControlReq("aec", 1), ControlReq("gain_ctrl", 1)>>
    [] w = W_resolutions -> reqs = <<>> /\ out[1].msg = "Available Resolutions:"

\* the request variable a command with an argument sets
C10_ArgVar(w) ==
  IF w = W_res THEN "framesize" ELSE (CHOOSE c \in SpecRanges : c.word = w).var

\* C10, amended: a command without argument (capture, status/s, help/h/?,
\* quit/q/exit, auto, resolutions) is selected only when the whole line is
\* that word, in any letter case; a command with an argument (manual, gain,
\* comp, quality, brightness, contrast, saturation, sharpness, res) is
\* selected when the line has at least two tokens and its first token is
\* exactly that word, whatever follows the second token; every other
\* non-empty line prints "Unknown command" and sends nothing.
C10_DispatchByLineShape ==
  HandledLine =>
    IF Len(InputParts) = 1 /\ Lower(InputParts[1]) \in SpecNoArgWords
    THEN ~SaidUnknown /\ C10_NoArgAction(Lower(InputParts[1]))
    ELSE IF Len(InputParts) >= 2 /\ InputParts[1] \in SpecArgWords
         THEN /\ ~SaidUnknown
              /\ reqs # <<>> => reqs[Len(reqs)].var = C10_ArgVar(InputParts[1])
         ELSE /\ SaidUnknown
              /\ reqs = <<>>
              /\ pc = "command_done"

\* `capture x`: the first token is a command word and the line is unknown
C10_Witness ==
  /\ input.kind = "line"
  /\ InputParts = <<W_capture, W_x>>
  /\ SaidUnknown

(***************************************************************************)
(* C11                                                                     *)
(***************************************************************************)
\* the host argument without one leading scheme
SpecStripScheme(h) ==
  IF MatchAt(h, T_http, 1) THEN SubSeq(h, Len(T_http) + 1, Len(h))
  ELSE IF MatchAt(h, T_https, 1) THEN SubSeq(h, Len(T_https) + 1, Len(h))
  ELSE h

\* h up to its last character that is no slash
SpecTrimSlashes(h) ==
  LET keep == {k \in 1..Len(h) : h[k] # "/"}
  IN  IF keep = {} THEN <<>>
      ELSE SubSeq(h, 1, CHOOSE k \in keep : \A j \in keep : j <= k)

SpecCleanHost(h) == SpecTrimSlashes(SpecStripScheme(h))

\* no dot, or the suffix .local
SpecNeedsDiscovery(h) ==
  \/ \A i \in 1..Len(h) : h[i] # "."
  \/ Len(h) >= 6 /\ SubSeq(h, Len(h) - 5, Len(h)) = T_local

\* the positions of the calling thread inside resolve_mdns_fast
ResolverPcs ==
  {"resolve_call", "mdns_start", "mdns_poll", "mdns_cancel", "mdns_close",
   "mdns_found", "mdns_return", "resolve_returned"}

\* the positions of main and of the shell from which a request is sent
RequestPcs ==
  {"main_exposure", "main_comp", "main_gain", "main_quality", "main_resolution",
   "main_output", "interactive", "banner_done"}

\* C11: the scheme (http:// or https://) and the trailing slashes of the host
\* argument are stripped before any request is made; discovery is attempted
\* iff the cleaned host has no dot or ends with .local; a cleaned host with a
\* dot and without that suffix is the target of every request, unchanged,
\* and nothing of the discovery runs.
C11_HostNormalization ==
  LET clean == SpecCleanHost(host)
  IN  /\ pc \in {"main_host", "main_discovery"} \cup ResolverPcs =>
           reqs = <<>> /\ main_sent = <<>>
      /\ pc \in {"main_discovery"} \cup ResolverPcs => esp32_host = clean
      /\ pc \in ResolverPcs => SpecNeedsDiscovery(clean)
      /\ pc \in RequestPcs \/ main_sent # <<>> =>
           IF SpecNeedsDiscovery(clean)
           THEN zc.zeroconf # "none"
           ELSE /\ esp32_host = clean
                /\ zc = NoZeroconf
                /\ listener = NoListener
                /\ callback = IdleCallback
                /\ resolved_ip = NoAddr

\* http://1.2.3.4/ was given and a request has gone to 1.2.3.4
C11_Witness ==
  /\ host = T_http \o H_1_2_3_4 \o <<"/">>
  /\ esp32_host = H_1_2_3_4
  /\ zc = NoZeroconf
  /\ reqs # <<>>

SpecControlVars(a) ==
  (IF a.auto_exposure \/ a.manual_exposure.some THEN <<"aec">> ELSE <<>>) \o
  (IF a.manual_exposure.some THEN <<"aec_value">> ELSE <<>>) \o
  (IF a.exposure_comp.some THEN <<"ae_level">> ELSE <<>>) \o
  (IF a.auto_gain \/ a.manual_gain.some THEN <<"gain_ctrl">> ELSE <<>>) \o
  (IF a.manual_gain.some THEN <<"agc_gain">> ELSE <<>>) \o
  (IF a.quality.some THEN <<"quality">> ELSE <<>>) \o
  (IF a.resolution.some THEN <<"framesize">> ELSE <<>>)

\* the requests main has sent are one /control per requested parameter
C13_ControlsSent(sent) ==
  /\ Len(sent) = Len(SpecControlVars(args))
  /\ \A i \in 1..Len(sent) :
       sent[i].path = "/control" /\ sent[i].var = SpecControlVars(args)[i]

\* the run ended at the resolver: the name was not resolved
C13_ResolverFailed ==
  SpecNeedsDiscovery(SpecCleanHost(host)) /\ ~resolved_ip.some

\* C13: the resolver runs once, before any request; then every /control
\* request of the requested settings is sent; only after all of them exactly
\* one GET /capture is attempted if an output path was given, and the
\* process exits without entering the shell; without an output path main
\* attempts no capture and control falls through to the shell.
C13_OneShotSequence ==
  /\ resolver_runs = (IF pc = "main_host" THEN 0 ELSE 1)
  /\ pc \in {"main_host", "main_discovery"} \cup ResolverPcs => main_sent = <<>>
  /\ ~C2_FlagOutOfRange(args) =>
       /\ pc = "main_output" =>
            /\ C13_ControlsSent(main_sent)
            /\ IF OutputGiven(args)
               THEN ENABLED MainCapture /\ ~ENABLED CallInteractive
               ELSE ENABLED CallInteractive /\ ~ENABLED MainCapture
       /\ pc = "exited" /\ ~C13_ResolverFailed =>
            /\ OutputGiven(args)
            /\ main_sent # <<>>
            /\ main_sent[Len(main_sent)] = CaptureReq
            /\ C13_ControlsSent(SubSeq(main_sent, 1, Len(main_sent) - 1))

(***************************************************************************)
(* C14                                                                     *)
(***************************************************************************)
\* C14: a one-shot run exits with 0 only if its operations succeeded, and
\* with 1 if any operation it performed failed, a setting call or the capture.
C14_ExitCodePropagatesFailure ==
  pc = "exited" /\ input = NoInput =>
    /\ exitCode = Some(0) => ~main_failed
    /\ main_failed => exitCode = Some(1)

(***************************************************************************)
(* C15                                                                     *)
(***************************************************************************)
\* the requested name without its .local suffix
SpecBaseName(h) ==
  IF Len(h) >= 6 /\ SubSeq(h, Len(h) - 5, Len(h)) = T_local
  THEN SubSeq(h, 1, Len(h) - 6)
  ELSE h

\* s without the dots at its end
SpecDropDots(s) ==
  LET keep == {k \in 1..Len(s) : s[k] # "."}
  IN  IF keep = {} THEN <<>>
      ELSE SubSeq(s, 1, CHOOSE k \in keep : \A j \in keep : j <= k)

\* an advertised service that is the requested camera and has an address
SpecMatching(s) ==
  /\ s.info
  /\ SpecDropDots(s.server) \in {SpecBaseName(host), SpecBaseName(host) \o T_local}
  /\ s.addresses # <<>>

\* the numbers a dotted text spells, read left to right
RECURSIVE SpecQuad(_, _, _)
SpecQuad(t, i, acc) ==
  IF i > Len(t) THEN <<acc>>
  ELSE IF t[i] = "." THEN <<acc>> \o SpecQuad(t, i + 1, 0)
  ELSE SpecQuad(t, i + 1, 10 * acc + DigitVal(t[i]))

\* resolve_mdns_fast has returned
C15_Returned == pc = "resolve_returned"

\* what holds in every state of a resolution
C15_Safety ==
  /\ C15_Returned /\ resolved_ip.some =>
       \E s \in advertised :
         /\ SpecMatching(s)
         /\ s \in zc.reported
         /\ SpecQuad(resolved_ip.text, 1, 0) = s.addresses[1]
  /\ listener.found => listener.ip_address.some
  /\ pc = "mdns_return" => listener.ip_address.some
  /\ pc \in {"mdns_found", "mdns_return"} \/ (C15_Returned /\ zc.zeroconf # "none") =>
       zc.browser = "cancelled" /\ zc.zeroconf = "closed"

\* C15: under any interleaving of the add_service callbacks with the polling
\* loop, resolve_mdns_fast returns an address only if an advertised service
\* matched the requested base name and had an address, what it returns is
\* the address such a callback wrote (ip_address is written before found,
\* so never None once found was seen true), and the polling loop always
\* ends, by a match or by the timeout, after which the browser is cancelled
\* and the Zeroconf instance closed.
C15_ResolveUnderInterleaving ==
  /\ []C15_Safety
  /\ (pc = "mdns_poll") ~>
       (C15_Returned /\ zc.browser = "cancelled" /\ zc.zeroconf = "closed")

\* two matching services were reported; the second callback was still
\* writing when the call returned the address of one of them
C15_Witness ==
  /\ C15_Returned
  /\ resolved_ip.some
  /\ Cardinality({s \in zc.reported : SpecMatching(s)}) = 2
  /\ callback.pc # "idle"

(***************************************************************************)
(* C16                                                                     *)
(***************************************************************************)
\* C16: in the shell and in a flag-driven run alike, every /control request
\* with var=aec_value is immediately preceded, within the same apply
\* operation, by the request var=aec, val=0, and every request with
\* var=agc_gain by the request var=gain_ctrl, val=0.
C16_ManualValueAfterAutoOff ==
  \A i \in 1..Len(reqs) :
    /\ reqs[i].var = "aec_value" => i > 1 /\ reqs[i - 1] = ControlReq("aec", 0)
    /\ reqs[i].var = "agc_gain" => i > 1 /\ reqs[i - 1] = ControlReq("gain_ctrl", 0)

====
